---- MODULE Spec2Model ----
(***************************************************************************)
(* The write pipeline of the scheduler unit (servers/su): write_item of    *)
(* flows.rs driving Builder::build / Builder::build_process of builder.rs  *)
(* under the per-process lock of the ProcessScheduler.                     *)
(*                                                                         *)
(* Every await point and every collaborator call of write_item is one      *)
(* step of a writer task.  The scheduler (scheduler.rs), the data store,   *)
(* the uploader, the gateway, the verifier and the signer are not part of  *)
(* the two source files; they are modelled by the contracts the            *)
(* specification document states for them.                                 *)
(***************************************************************************)
EXTENDS Integers, Sequences, FiniteSets, TLC

\* ------------------------------------------------------------------ bounds
\* total number of write_item invocations in one behaviour
MaxCalls == 3

\* the tasks that run write_item concurrently
Writers == {1, 2}

\* the values the wall clock can read; successive reads are unrelated, so the
\* clock may step backwards between two writes
Clock == {1, 2}

\* ------------------------------------------------------- inbound data items
\* An inbound data item as write_item sees it after parse_data_item: its id,
\* its target, the classification tags, whether the bytes parse at all and
\* whether the verifier accepts the signature.
MkItem(id, ty, target, proto, mod, sch, parses, valid) ==
    [id |-> id, type |-> ty, target |-> target, proto |-> proto,
     module |-> mod, scheduler |-> sch, parses |-> parses, valid |-> valid]

Items ==
    { MkItem("P1", "Process", "",   TRUE,  TRUE,  TRUE,  TRUE,  TRUE),
      MkItem("P2", "Process", "",   TRUE,  TRUE,  TRUE,  TRUE,  TRUE),
      MkItem("M1", "Message", "P1", TRUE,  FALSE, FALSE, TRUE,  TRUE),
      MkItem("M2", "Message", "P1", TRUE,  FALSE, FALSE, TRUE,  TRUE),
      MkItem("X1", "Message", "P1", TRUE,  FALSE, FALSE, TRUE,  FALSE),
      MkItem("Q1", "Process", "",   TRUE,  FALSE, TRUE,  TRUE,  TRUE),
      MkItem("Q2", "Process", "",   TRUE,  TRUE,  FALSE, TRUE,  TRUE),
      MkItem("Q3", "Message", "P1", FALSE, FALSE, FALSE, TRUE,  TRUE),
      MkItem("Q4", "none",    "P1", TRUE,  FALSE, FALSE, TRUE,  TRUE),
      MkItem("Q5", "Other",   "P1", TRUE,  FALSE, FALSE, TRUE,  TRUE),
      MkItem("B1", "Message", "P1", TRUE,  FALSE, FALSE, FALSE, TRUE) }

NoItem == MkItem("", "none", "", FALSE, FALSE, FALSE, FALSE, FALSE)

\* every string that can name a process (a lock key, a store partition)
Ids == {it.id : it \in Items} \cup {it.target : it \in Items}

\* ------------------------------------------------------------ classification
\* Classify with the Module/Scheduler test demanding only that one of the two
\* tags is present (&& written for ||).
ClassifyEitherTag(it) ==
    IF ~it.parses THEN "ParseError"
    ELSE IF ~it.proto THEN "NoDataProtocol"
    ELSE IF it.type = "none" THEN "NoTypeTag"
    ELSE IF it.type = "Process"
         THEN IF ~it.module /\ ~it.scheduler THEN "NoModuleOrScheduler"
              ELSE "Process"
    ELSE IF it.type = "Message" THEN "Message"
    ELSE "NoTypeTag"

\* write_item, flows.rs:67-83 and 130-135: the outcome of parsing and of the
\* tag checks, in the order the code makes them.
Classify(it) ==
    IF ~it.parses THEN "ParseError"
    ELSE IF ~it.proto THEN "NoDataProtocol"
    ELSE IF it.type = "none" THEN "NoTypeTag"
    ELSE IF it.type = "Process"
         THEN IF ~it.module \/ ~it.scheduler THEN "NoModuleOrScheduler"
              ELSE "Process"
    ELSE IF it.type = "Message" THEN "Message"
    ELSE "NoTypeTag"

\* ScheduleKey with data_item.id() used in the message branch as well.
ScheduleKeyItemId(it) == it.id

\* ScheduleKey with data_item.target() used in the process branch as well.
ScheduleKeyTarget(it) == it.target

\* flows.rs:90-92 and 113-115: the id handed to acquire_lock and to
\* update_schedule_info: data_item.id() for a process, data_item.target() for
\* a message.
ScheduleKey(it) == IF it.type = "Process" THEN it.id ELSE it.target

\* ProcessOf with the Process tag taken from the inner item's id.
ProcessOfItemId(it) == it.id

\* builder.rs:70 and 86, flows.rs:96 and 119: the process a saved record
\* belongs to: a Process record is the process of its own id, a Message
\* record carries the Process tag, the inner item's target.
ProcessOf(it) == IF it.type = "Process" THEN it.id ELSE it.target

\* ------------------------------------------------------------------ schedule
EpochLabel == "epoch-0"

\* the cursor of a process nothing was persisted for
NoState == [epoch |-> EpochLabel, nonce |-> -1, hash_chain |-> <<>>, timestamp |-> 0]

Max(a, b) == IF a >= b THEN a ELSE b

\* The chained digest.  SHA-256 is modelled as injective: the digest of a
\* chain is the sequence of everything hashed into it.
HashSeed(id) == <<id>>
HashStep(prev, id) == Append(prev, id)

\* The next schedule snapshot from the cursor `state`, the id passed by the
\* caller and the clock value read.
NextSnapshot(state, id, now) ==
    IF state = NoState
    THEN [epoch |-> EpochLabel, nonce |-> 0, hash_chain |-> HashSeed(id),
          timestamp |-> Max(now, state.timestamp)]
    ELSE [epoch |-> state.epoch, nonce |-> state.nonce + 1,
          hash_chain |-> HashStep(state.hash_chain, id),
          timestamp |-> Max(now, state.timestamp)]

\* ------------------------------------------------------------------- builder
\* The wire form of a data item and its decoding (DataItem::as_bytes,
\* DataItem::from_bytes): the bytes are the item's fields laid out in a row.
AsBytes(it) ==
    <<it.id, it.type, it.target, it.proto, it.module, it.scheduler,
      it.parses, it.valid>>
FromBytes(b) == MkItem(b[1], b[2], b[3], b[4], b[5], b[6], b[7], b[8])

\* the ScheduleProvider accessors: every field is handed out as a string
ProviderEpoch(s) == s.epoch
ProviderNonce(s) == ToString(s.nonce)
ProviderHashChain(s) == ToString(s.hash_chain)
ProviderTimestamp(s) == ToString(s.timestamp)

Tag(name, value) == [name |-> name, value |-> value]

\* BuildTags with the Process tag taken from the inner item's id.
BuildTagsProcessFromId(it, s, height) ==
    << Tag("Bundle-Format", "binary"),
       Tag("Bundle-Version", "2.0.0"),
       Tag("Process", it.id),
       Tag("Epoch", ProviderEpoch(s)),
       Tag("Nonce", ProviderNonce(s)),
       Tag("Hash-Chain", ProviderHashChain(s)),
       Tag("Block-Height", ToString(height)),
       Tag("Timestamp", ProviderTimestamp(s)) >>

\* builder.rs:70, 83-92: the tag vector of Builder::build.
BuildTags(it, s, height) ==
    << Tag("Bundle-Format", "binary"),
       Tag("Bundle-Version", "2.0.0"),
       Tag("Process", it.target),
       Tag("Epoch", ProviderEpoch(s)),
       Tag("Nonce", ProviderNonce(s)),
       Tag("Hash-Chain", ProviderHashChain(s)),
       Tag("Block-Height", ToString(height)),
       Tag("Timestamp", ProviderTimestamp(s)) >>

\* BuildProcessTags with the scheduling tags of Builder::build kept.
BuildProcessTagsScheduled(it, s, height) == BuildTags(it, s, height)

\* builder.rs:130-135: the tag vector of Builder::build_process.
BuildProcessTags(it, s, height) ==
    << Tag("Bundle-Format", "binary"),
       Tag("Bundle-Version", "2.0.0"),
       Tag("Block-Height", ToString(height)),
       Tag("Timestamp", ProviderTimestamp(s)) >>

\* builder.rs:95, 138: DataBundle::new(tags.clone())
NewBundle(tags) == [tags |-> tags, items |-> <<>>]

\* AddItem with the item's target rewritten to the process it is bundled for.
AddItemRetargeted(bundle, it) ==
    [bundle EXCEPT !.items = Append(@, [it EXCEPT !.target = it.id])]

\* builder.rs:96, 139: data_bundle.add_item(item)
AddItem(bundle, it) == [bundle EXCEPT !.items = Append(@, it)]

\* builder.rs:97, 140: data_bundle.to_bytes(): the tags and the wire form of
\* every item, in order
BundleBytes(bundle) ==
    [tags |-> bundle.tags,
     items |-> [i \in 1..Len(bundle.items) |-> AsBytes(bundle.items[i])]]

\* the first data item decoded from a serialised bundle
DecodeFirst(bytes) == FromBytes(bytes.items[1])

NoBundle == NewBundle(<<>>)
NoOuter ==
    [target |-> "none", data |-> BundleBytes(NoBundle), tags |-> <<>>,
     owner |-> "", signature |-> ""]

\* builder.rs:99-100, 142-143: DataItem::new(vec![], buffer, tags, pub_key):
\* the outer data item, not yet signed
NewOuter(buffer, tags) ==
    [target |-> "", data |-> buffer, tags |-> tags, owner |-> "su",
     signature |-> ""]

\* the two entry points of the builder
BuilderKinds == {"build", "build_process"}

\* the steps of the builder in the order of the code
BuilderOrder == <<"parse", "verify", "gateway", "bundle", "sign", "encode">>

\* the schedule snapshots a caller can pass in: none advanced at all, the
\* first of a process and the one after it
FirstSnapshots == {NextSnapshot(NoState, p, t) : p \in {"P1", "P2"}, t \in Clock}
Snapshots ==
    {NoState} \cup FirstSnapshots
      \cup {NextSnapshot(s, "P1", t) : s \in FirstSnapshots, t \in Clock}

\* the builder before it is called
NoBuilder ==
    [pc |-> "off", kind |-> "build", tx |-> AsBytes(NoItem), sched |-> NoState,
     item |-> NoItem, height |-> 0, tags |-> <<>>, bundle |-> NoBundle,
     outer |-> NoOuter, trace |-> <<>>, result |-> "none"]

\* --------------------------------------------------------------------- state
VARIABLES
    pc,            \* pc[w]: where task w stands in write_item
    item,          \* item[w]: the data item task w is writing
    holder,        \* holder[p]: the task holding the mutex of p, 0 if free
    waitq,         \* waitq[p]: the tasks suspended in lock().await, in order
    schedule_info, \* schedule_info[p]: the ScheduleInfo guarded by p's mutex
    built,         \* built[w]: the BuildResult of task w
    persisted,     \* persisted[p]: the records saved for process p, in order
    clock_read,    \* clock_read[w]: the clock value update_schedule_info read
                   \* for w
    entry,         \* entry[w]: the cursor of w's process when w took the lock
    work,          \* work[w]: collaborator calls of w's current invocation
    retry,         \* retry[w]: w repeats the item whose write has just failed
                   \* at upload or at the store
    response,      \* what the write_item that returned last returned
    calls,         \* write_item invocations made so far
    bld            \* one call of the builder taken on its own, step by step

\* the state of the write pipeline
write_vars == <<pc, item, holder, waitq, schedule_info, built, persisted,
                clock_read, entry, work, retry, response, calls>>

vars == <<write_vars, bld>>

NoBuild == [sched |-> NoState, height |-> 0, process |-> "", signed |-> FALSE]
NoWork == [verify |-> 0, gateway |-> 0, sign |-> 0, upload |-> 0, save |-> 0]

\* the errors a caller answers by submitting the same input again
Retryable == {"UploadFailed", "PersistFailed"}

\* A returned Result<String, String>: Ok carries the id and a timestamp, Err
\* only its kind.  With it are kept the collaborator calls `wk` the invocation
\* made and, for a retryable error, the id of the input to submit again.
Returned(id, ok, kind, ts, wk) ==
    [id |-> IF ok \/ kind \in Retryable THEN id ELSE "",
     ok |-> ok, kind |-> kind, timestamp |-> ts, work |-> wk]
NoResponse ==
    [id |-> "", ok |-> FALSE, kind |-> "none", timestamp |-> 0, work |-> NoWork]

\* DataStore contract: the latest persisted ScheduleState of a process.
LatestState(p) ==
    IF persisted[p] = <<>> THEN NoState
    ELSE persisted[p][Len(persisted[p])].sched

\* no write_item has been called yet
InitWrite ==
    /\ pc = [w \in Writers |-> "idle"]
    /\ item = [w \in Writers |-> NoItem]
    /\ holder = [p \in Ids |-> 0]
    /\ waitq = [p \in Ids |-> <<>>]
    /\ schedule_info = [p \in Ids |-> NoState]
    /\ built = [w \in Writers |-> NoBuild]
    /\ persisted = [p \in Ids |-> <<>>]
    /\ entry = [w \in Writers |-> NoState]
    /\ clock_read = [w \in Writers |-> 0]
    /\ work = [w \in Writers |-> NoWork]
    /\ retry = [w \in Writers |-> FALSE]
    /\ response = NoResponse
    /\ calls = 0

Init ==
    /\ InitWrite
    /\ bld = NoBuilder

\* ------------------------------------------------------------------- helpers
\* the task is over: its locals are gone
Return(w, ok, kind, ts, wk) ==
    /\ response' = Returned(item[w].id, ok, kind, ts, wk)
    /\ pc' = [pc EXCEPT ![w] = "idle"]
    /\ item' = [item EXCEPT ![w] = NoItem]
    /\ built' = [built EXCEPT ![w] = NoBuild]
    /\ entry' = [entry EXCEPT ![w] = NoState]
    /\ clock_read' = [clock_read EXCEPT ![w] = 0]
    /\ work' = [work EXCEPT ![w] = NoWork]
    /\ retry' = [retry EXCEPT ![w] = FALSE]

\* The guard of task w is dropped: the mutex of its key is free again.  What
\* the guarded ScheduleInfo holds at that point is never read again
\* (update_schedule_info overwrites it before the builder looks at it), so it
\* is cleared here.
Release(w) ==
    /\ holder' = [holder EXCEPT ![ScheduleKey(item[w])] = 0]
    /\ schedule_info' = [schedule_info EXCEPT ![ScheduleKey(item[w])] = NoState]

\* FailLocked with the guard kept alive across the error return.
FailLockedLeak(w, kind, wk) ==
    /\ UNCHANGED <<holder, schedule_info>>
    /\ Return(w, FALSE, kind, 0, wk)

\* write_item returns Err(kind) from inside the locked section: the `?`
\* leaves the function and the guard is dropped on the way out
FailLocked(w, kind, wk) ==
    /\ Release(w)
    /\ Return(w, FALSE, kind, 0, wk)

\* ------------------------------------------------------------------- actions
\* flows.rs:64-83: a task enters write_item with an input that parses and
\* classifies as a process or as a message.
Call(w) ==
    /\ pc[w] = "idle"
    /\ calls < MaxCalls
    /\ \E it \in Items :
         /\ Classify(it) \in {"Process", "Message"}
         /\ item' = [item EXCEPT ![w] = it]
         /\ waitq' = [waitq EXCEPT ![ScheduleKey(it)] = Append(@, w)]
         /\ retry' = [retry EXCEPT ![w] =
                        /\ it.id = response.id
                        /\ response.kind \in Retryable]
    /\ pc' = [pc EXCEPT ![w] = "waiting"]
    /\ calls' = calls + 1
    /\ UNCHANGED <<bld, clock_read, holder, schedule_info, built, persisted,
                   entry, work, response>>

\* flows.rs:64-83, 130-135: a task enters write_item with an input that does
\* not parse or fails the tag checks; write_item returns the error at once.
CallRejected(w) ==
    /\ pc[w] = "idle"
    /\ calls < MaxCalls
    /\ \E it \in Items :
         /\ Classify(it) \notin {"Process", "Message"}
         /\ response' = Returned(it.id, FALSE, Classify(it), 0, NoWork)
    /\ calls' = calls + 1
    /\ UNCHANGED <<bld, clock_read, pc, item, holder, waitq, schedule_info, built,
                   persisted, entry, work, retry>>

\* the mutex of w's key can be handed to w: it is free and w is the first
\* of its queue
CanLock(w) ==
    /\ holder[ScheduleKey(item[w])] = 0
    /\ waitq[ScheduleKey(item[w])] # <<>>
    /\ Head(waitq[ScheduleKey(item[w])]) = w

\* LockGranted with the message branch taking the mutex of the item's own id
\* next to the mutex of its target.
LockGrantedBoth(w) ==
    /\ pc[w] = "waiting"
    /\ CanLock(w)
    /\ holder' = [holder EXCEPT ![ScheduleKey(item[w])] = w, ![item[w].id] = w]
    /\ waitq' = [waitq EXCEPT ![ScheduleKey(item[w])] = Tail(@)]
    /\ entry' = [entry EXCEPT ![w] = LatestState(ProcessOf(item[w]))]
    /\ pc' = [pc EXCEPT ![w] = "locked"]
    /\ UNCHANGED <<bld, clock_read, item, schedule_info, built, persisted, work,
                   retry, response, calls>>

\* flows.rs:91, 114: lock().await returns the guard.
LockGranted(w) ==
    /\ pc[w] = "waiting"
    /\ CanLock(w)
    /\ holder' = [holder EXCEPT ![ScheduleKey(item[w])] = w]
    /\ waitq' = [waitq EXCEPT ![ScheduleKey(item[w])] = Tail(@)]
    /\ entry' = [entry EXCEPT ![w] = LatestState(ProcessOf(item[w]))]
    /\ pc' = [pc EXCEPT ![w] = "locked"]
    /\ UNCHANGED <<bld, clock_read, item, schedule_info, built, persisted, work, retry,
                   response, calls>>

\* flows.rs:92, 115: update_schedule_info(&mut *schedule_info, key) writes
\* the next snapshot of the key into the guarded ScheduleInfo.
UpdateSchedule(w) ==
    /\ pc[w] = "locked"
    /\ \E now \in Clock :
         /\ schedule_info' = [schedule_info EXCEPT ![ScheduleKey(item[w])] =
               NextSnapshot(LatestState(ScheduleKey(item[w])),
                            ScheduleKey(item[w]), now)]
         /\ clock_read' = [clock_read EXCEPT ![w] = now]
    /\ pc' = [pc EXCEPT ![w] = "build"]
    /\ UNCHANGED <<bld, item, holder, waitq, built, persisted, entry, work,
                   retry, response, calls>>

\* flows.rs:92, 115: update_schedule_info returns an error.
UpdateScheduleFail(w) ==
    /\ pc[w] = "locked"
    /\ FailLocked(w, "ScheduleUnavailable", work[w])
    /\ UNCHANGED <<bld, waitq, persisted, calls>>

\* one more call of a collaborator by task w
Count(w, what) == work' = [work EXCEPT ![w][what] = @ + 1]

Heights == {1000}

\* builder.rs:68-114, 116-157: the builder verifies the item, asks the
\* gateway for the height, makes the tag vector from the snapshot behind the
\* schedule_info reference, serialises the bundle and has it signed.
Build(w) ==
    /\ pc[w] = "build"
    /\ item[w].valid
    /\ work' = [work EXCEPT ![w].verify = 1, ![w].gateway = 1, ![w].sign = 1]
    /\ \E h \in Heights :
         built' = [built EXCEPT ![w] =
             [sched |-> schedule_info[ScheduleKey(item[w])], height |-> h,
              process |-> ProcessOf(item[w]), signed |-> TRUE]]
    /\ pc' = [pc EXCEPT ![w] = "upload"]
    /\ UNCHANGED <<bld, clock_read, item, holder, waitq, schedule_info, persisted,
                   entry, retry, response, calls>>

\* BuildVerifyFail with the verifier's verdict ignored: the item is built.
BuildUnverified(w) ==
    /\ pc[w] = "build"
    /\ ~item[w].valid
    /\ work' = [work EXCEPT ![w].verify = 1, ![w].gateway = 1, ![w].sign = 1]
    /\ \E h \in Heights :
         built' = [built EXCEPT ![w] =
             [sched |-> schedule_info[ScheduleKey(item[w])], height |-> h,
              process |-> ProcessOf(item[w]), signed |-> TRUE]]
    /\ pc' = [pc EXCEPT ![w] = "upload"]
    /\ UNCHANGED <<bld, clock_read, item, holder, waitq, schedule_info, persisted,
                   entry, retry, response, calls>>

\* builder.rs:77, 124: the verifier rejects the item.
BuildVerifyFail(w) ==
    /\ pc[w] = "build"
    /\ ~item[w].valid
    /\ FailLocked(w, "Verification", [work[w] EXCEPT !.verify = 1])
    /\ UNCHANGED <<bld, waitq, persisted, calls>>

\* builder.rs:80, 127: network_info fails.
BuildGatewayFail(w) ==
    /\ pc[w] = "build"
    /\ item[w].valid
    /\ FailLocked(w, "GatewayUnavailable",
                  [work[w] EXCEPT !.verify = 1, !.gateway = 1])
    /\ UNCHANGED <<bld, waitq, persisted, calls>>

\* builder.rs:103-104, 146-147: the signer fails.
BuildSignFail(w) ==
    /\ pc[w] = "build"
    /\ item[w].valid
    /\ FailLocked(w, "SignFailed",
                  [work[w] EXCEPT !.verify = 1, !.gateway = 1, !.sign = 1])
    /\ UNCHANGED <<bld, waitq, persisted, calls>>

\* Upload with the guard dropped as soon as the uploader has answered.
UploadThenRelease(w) ==
    /\ pc[w] = "upload"
    /\ Count(w, "upload")
    /\ Release(w)
    /\ pc' = [pc EXCEPT ![w] = "save"]
    /\ UNCHANGED <<bld, clock_read, item, waitq, built, persisted, entry, retry,
                   response, calls>>

\* flows.rs:51-58, 95, 118: the uploader accepts the binary.
Upload(w) ==
    /\ pc[w] = "upload"
    /\ Count(w, "upload")
    /\ pc' = [pc EXCEPT ![w] = "save"]
    /\ UNCHANGED <<bld, clock_read, item, holder, waitq, schedule_info, built,
                   persisted, entry, retry, response, calls>>

\* UploadFail with the store written before the upload is attempted.
UploadFailAfterSave(w) ==
    /\ pc[w] = "upload"
    /\ persisted' = [persisted EXCEPT ![built[w].process] =
          Append(@, [type |-> item[w].type, id |-> item[w].id,
                     process |-> built[w].process, sched |-> built[w].sched,
                     height |-> built[w].height])]
    /\ FailLocked(w, "UploadFailed", [work[w] EXCEPT !.upload = @ + 1, !.save = @ + 1])
    /\ UNCHANGED <<bld, waitq, calls>>

\* flows.rs:52, 95, 118: the uploader returns an error.
UploadFail(w) ==
    /\ pc[w] = "upload"
    /\ FailLocked(w, "UploadFailed", [work[w] EXCEPT !.upload = @ + 1])
    /\ UNCHANGED <<bld, waitq, persisted, calls>>

\* Record with the bundle built from the schedule as it was before
\* update_schedule_info.
RecordStale(w) ==
    [type |-> item[w].type, id |-> item[w].id, process |-> built[w].process,
     sched |-> entry[w], height |-> built[w].height]

\* Process::from_bundle / Message::from_bundle: the record handed to the store
Record(w) ==
    [type |-> item[w].type, id |-> item[w].id, process |-> built[w].process,
     sched |-> built[w].sched, height |-> built[w].height]

\* flows.rs:96-98, 119-121: from_bundle, then save_process / save_message
\* stores the record.
Save(w) ==
    /\ pc[w] = "save"
    /\ Count(w, "save")
    /\ persisted' = [persisted EXCEPT ![built[w].process] = Append(@, Record(w))]
    /\ pc' = [pc EXCEPT ![w] = "drop"]
    /\ UNCHANGED <<bld, clock_read, item, holder, waitq, schedule_info, built, entry,
                   retry, response, calls>>

\* flows.rs:96, 119: from_bundle returns an error.
FromBundleFail(w) ==
    /\ pc[w] = "save"
    /\ FailLocked(w, "FromBundleFailed", work[w])
    /\ UNCHANGED <<bld, waitq, persisted, calls>>

\* SaveFail with the store's error swallowed: the write goes on as if saved.
SaveFailSwallowed(w) ==
    /\ pc[w] = "save"
    /\ Count(w, "save")
    /\ pc' = [pc EXCEPT ![w] = "drop"]
    /\ UNCHANGED <<bld, clock_read, item, holder, waitq, schedule_info, built,
                   persisted, entry, retry, response, calls>>

\* flows.rs:97, 120: the store returns an error.
SaveFail(w) ==
    /\ pc[w] = "save"
    /\ FailLocked(w, "PersistFailed", [work[w] EXCEPT !.save = @ + 1])
    /\ UNCHANGED <<bld, waitq, persisted, calls>>

\* flows.rs:99, 122: drop(schedule_info).
Drop(w) ==
    /\ pc[w] = "drop"
    /\ Release(w)
    /\ pc' = [pc EXCEPT ![w] = "respond"]
    /\ UNCHANGED <<bld, clock_read, item, waitq, built, persisted, entry,
                   work, retry, response, calls>>

\* Respond with the timestamp of the snapshot the bundle was built under.
RespondSnapshot(w) ==
    /\ pc[w] = "respond"
    /\ Return(w, TRUE, "ok", built[w].sched.timestamp, work[w])
    /\ UNCHANGED <<bld, holder, waitq, schedule_info, persisted, calls>>

\* flows.rs:100-106, 123-129: the clock is read and the response is returned.
Respond(w) ==
    /\ pc[w] = "respond"
    /\ \E now \in Clock : Return(w, TRUE, "ok", now, work[w])
    /\ UNCHANGED <<bld, holder, waitq, schedule_info, persisted, calls>>

Next ==
    \E w \in Writers :
        \/ Call(w)
        \/ CallRejected(w)
        \/ LockGranted(w)
        \/ UpdateSchedule(w)
        \/ UpdateScheduleFail(w)
        \/ Build(w)
        \/ BuildVerifyFail(w)
        \/ BuildGatewayFail(w)
        \/ BuildSignFail(w)
        \/ Upload(w)
        \/ UploadFail(w)
        \/ Save(w)
        \/ FromBundleFail(w)
        \/ SaveFail(w)
        \/ Drop(w)
        \/ Respond(w)

Spec == Init /\ [][Next]_vars

\* a step of task w inside write_item: every await it is suspended at returns
Progress(w) ==
    \/ LockGranted(w)
    \/ UpdateSchedule(w)
    \/ UpdateScheduleFail(w)
    \/ Build(w)
    \/ BuildVerifyFail(w)
    \/ BuildGatewayFail(w)
    \/ BuildSignFail(w)
    \/ Upload(w)
    \/ UploadFail(w)
    \/ Save(w)
    \/ FromBundleFail(w)
    \/ SaveFail(w)
    \/ Drop(w)
    \/ Respond(w)

\* The executor polls every task that can run and every collaborator call
\* returns; nothing obliges a client to call write_item.
FairSpec == Spec /\ \A w \in Writers : WF_vars(Progress(w))

\* ------------------------------------------------- the builder, step by step
\* One call of Builder::build or Builder::build_process on its own: the input
\* bytes, the entry point and the schedule snapshot are chosen freely, and
\* each `?` of the function is a step that either goes on or returns the
\* error.  Build and its failures above are these steps taken in one.
BuilderInit ==
    /\ InitWrite
    /\ \E it \in Items : \E k \in BuilderKinds : \E s \in Snapshots :
         bld = [NoBuilder EXCEPT !.pc = "parse", !.kind = k,
                                 !.tx = AsBytes(it), !.sched = s]

\* the builder has taken step bld.pc with outcome ok and stands at `to`
BStep(ok, to) ==
    [bld EXCEPT !.trace = Append(@, [step |-> bld.pc, ok |-> ok]), !.pc = to]

\* the builder returns Err(BuilderError) from step bld.pc: nothing built so
\* far leaves the function
BFail ==
    bld' = [BStep(FALSE, "returned") EXCEPT
              !.result = "err", !.item = NoItem, !.height = 0, !.tags = <<>>,
              !.bundle = NoBundle, !.outer = NoOuter]

\* builder.rs:69, 117: DataItem::from_bytes(tx)
BParse ==
    /\ bld.pc = "parse"
    /\ FromBytes(bld.tx).parses
    /\ bld' = [BStep(TRUE, "verify") EXCEPT !.item = FromBytes(bld.tx)]
    /\ UNCHANGED write_vars

BParseFail ==
    /\ bld.pc = "parse"
    /\ ~FromBytes(bld.tx).parses
    /\ BFail
    /\ UNCHANGED write_vars

\* BVerifyFail with the verifier's error dropped: the builder goes on.
BVerifyIgnored ==
    /\ bld.pc = "verify"
    /\ ~bld.item.valid
    /\ bld' = BStep(FALSE, "gateway")
    /\ UNCHANGED write_vars

\* builder.rs:77, 124: verifier.verify_data_item(&item)
BVerify ==
    /\ bld.pc = "verify"
    /\ bld.item.valid
    /\ bld' = BStep(TRUE, "gateway")
    /\ UNCHANGED write_vars

BVerifyFail ==
    /\ bld.pc = "verify"
    /\ ~bld.item.valid
    /\ BFail
    /\ UNCHANGED write_vars

\* builder.rs:80-81, 127-128: gateway.network_info()
BGateway ==
    /\ bld.pc = "gateway"
    /\ \E h \in Heights : bld' = [BStep(TRUE, "bundle") EXCEPT !.height = h]
    /\ UNCHANGED write_vars

BGatewayFail ==
    /\ bld.pc = "gateway"
    /\ BFail
    /\ UNCHANGED write_vars

\* builder.rs:83-101, 130-144: the tag vector, the bundle with the one item,
\* its serialisation and the outer data item around it
BBundle ==
    /\ bld.pc = "bundle"
    /\ LET tags == IF bld.kind = "build"
                   THEN BuildTags(bld.item, bld.sched, bld.height)
                   ELSE BuildProcessTags(bld.item, bld.sched, bld.height)
           bundle == AddItem(NewBundle(tags), bld.item)
       IN  bld' = [BStep(TRUE, "sign") EXCEPT
                     !.tags = tags, !.bundle = bundle,
                     !.outer = NewOuter(BundleBytes(bundle), tags)]
    /\ UNCHANGED write_vars

\* builder.rs:97, 100, 101 (140, 143, 144): to_bytes, DataItem::new or
\* get_message returns an error
BBundleFail ==
    /\ bld.pc = "bundle"
    /\ BFail
    /\ UNCHANGED write_vars

\* builder.rs:103-106, 146-149: signer.sign_tx(message)
BSign ==
    /\ bld.pc = "sign"
    /\ bld' = [BStep(TRUE, "encode") EXCEPT !.outer.signature = "signed"]
    /\ UNCHANGED write_vars

BSignFail ==
    /\ bld.pc = "sign"
    /\ BFail
    /\ UNCHANGED write_vars

\* builder.rs:110-113, 153-156: Ok(BuildResult{binary, bundle})
BReturn ==
    /\ bld.pc = "encode"
    /\ bld' = [BStep(TRUE, "returned") EXCEPT !.result = "ok"]
    /\ UNCHANGED write_vars

\* builder.rs:111, 154: new_data_item.as_bytes() returns an error
BReturnFail ==
    /\ bld.pc = "encode"
    /\ BFail
    /\ UNCHANGED write_vars

BuilderNext ==
    \/ BParse
    \/ BParseFail
    \/ BVerify
    \/ BVerifyFail
    \/ BGateway
    \/ BGatewayFail
    \/ BBundle
    \/ BBundleFail
    \/ BSign
    \/ BSignFail
    \/ BReturn
    \/ BReturnFail

BuilderSpec == BuilderInit /\ [][BuilderNext]_vars

\* ------------------------------------------------------------------ claims
\* task w is inside the locked section: lock().await has returned and the
\* guard is not yet dropped
InLocked(w) == pc[w] \in {"locked", "build", "upload", "save", "drop"}

Last(seq) == seq[Len(seq)]

\* the process the write of task w addresses
Addressed(w) == ProcessOf(item[w])

\* the step taken is task w leaving write_item with an error from stage `at`
FailsAt(w, at) == pc[w] = at /\ pc'[w] = "idle"

\* the step taken is a write_item that returns without queueing for a lock
Rejects == calls' = calls + 1 /\ pc' = pc

\* C1: the records persisted for a process carry the nonces 0, 1, ..., N-1 in
\* the order they were persisted: none is skipped and none is given twice,
\* however the writes to the process interleave.
C1_NoncesGapFree ==
    \A p \in Ids : \A i \in 1..Len(persisted[p]) :
        persisted[p][i].sched.nonce = i - 1

\* C1 witness: the creation of a process and a message to it are persisted
\* with nonces 0 and 1 while a third write to the same process is queued
\* behind the writer of the second, which still holds the lock.
C1_Witness ==
    \E p \in Ids : \E w, v \in Writers :
        /\ Len(persisted[p]) = 2
        /\ persisted[p][1].type = "Process"
        /\ persisted[p][2].type = "Message"
        /\ pc[w] = "drop" /\ Addressed(w) = p
        /\ pc[v] = "waiting" /\ Addressed(v) = p

\* C2: at most one write_item invocation is inside the locked section for a
\* given process, a process item counting for its id and a message for its
\* target; a message to a process still being created is not inside it.
C2_OneWriterPerProcess ==
    \A w, v \in Writers :
        (w # v /\ InLocked(w) /\ InLocked(v)) => Addressed(w) # Addressed(v)

\* C2 witness: a process is being created inside the locked section while a
\* message targeting it waits for the lock.
C2_Witness ==
    \E w, v \in Writers :
        /\ InLocked(w) /\ item[w].type = "Process"
        /\ pc[v] = "waiting" /\ item[v].type = "Message"
        /\ item[v].target = item[w].id

InvalidIds == {it.id : it \in {x \in Items : ~x.valid}}

C6_DistinctProcessesIndependent ==
    \A w \in Writers :
        (pc[w] = "waiting" /\ ~CanLock(w)) =>
            \E v \in Writers \ {w} :
                /\ Addressed(v) = Addressed(w)
                /\ InLocked(v) \/ pc[v] = "waiting"

\* C6 witness: two writes to two distinct processes both hold their locks.
C6_Witness ==
    \E w, v \in Writers :
        /\ InLocked(w) /\ InLocked(v)
        /\ Addressed(w) # Addressed(v)
        /\ pc[w] = "save" /\ pc[v] = "save"

\* C7: a lock is held only by a task that is inside the locked section of a
\* write to that process: once a write has returned, on success or on any
\* error, the lock it held is free.
C7_LockReleasedOnReturn ==
    \A p \in Ids :
        holder[p] # 0 =>
            /\ InLocked(holder[p])
            /\ ScheduleKey(item[holder[p]]) = p

\* C7 witness: after a write to a process failed at the store, the retry of
\* the same write holds the lock of that process.
C7_Witness ==
    \E w \in Writers :
        /\ response.kind = "PersistFailed"
        /\ retry[w] /\ InLocked(w)
        /\ holder[Addressed(w)] = w

\* what the classification demands of an item
Classifiable(it) ==
    /\ it.parses
    /\ it.proto
    /\ \/ it.type = "Message"
       \/ it.type = "Process" /\ it.module /\ it.scheduler

RejectKinds == {"ParseError", "NoDataProtocol", "NoTypeTag", "NoModuleOrScheduler"}

\* C8: a submission that fails classification returns an error at once: no
\* task ever proceeds with such an item, no lock is taken or queued for, no
\* schedule is advanced and nothing is uploaded or saved.
C8_ClassificationFailureChangesNothing ==
    /\ [](\A w \in Writers : pc[w] # "idle" => Classifiable(item[w]))
    /\ [][Rejects =>
            /\ response'.kind \in RejectKinds
            /\ ~response'.ok
            /\ response'.work = NoWork
            /\ UNCHANGED <<item, holder, waitq, schedule_info, persisted>>]_vars

\* C8 witness: a Process submission without its Module tag has just been
\* rejected while another write is inside its locked section.
C8_Witness ==
    /\ response.kind = "NoModuleOrScheduler"
    /\ \E w \in Writers : InLocked(w)
    /\ Len(persisted["P1"]) = 1

\* C9 (the claim as stated): a message to a process that was never created
\* is refused before anything is advanced, uploaded or saved, so the first
\* record persisted for any process is its creation.
C9_UnknownProcessRefused ==
    \A p \in Ids : persisted[p] # <<>> => persisted[p][1].type = "Process"

\* C10: along the records persisted for one process the timestamp never
\* decreases.
C10_TimestampMonotone ==
    \A p \in Ids : \A i \in 1..(Len(persisted[p]) - 1) :
        persisted[p][i + 1].sched.timestamp >= persisted[p][i].sched.timestamp

\* C10 witness: the clock read for the second write of a process was lower
\* than the timestamp of the first, and the second record reuses the first's.
C10_Witness ==
    \E w \in Writers :
        /\ pc[w] = "drop"
        /\ Len(persisted[Addressed(w)]) = 2
        /\ clock_read[w] < persisted[Addressed(w)][1].sched.timestamp
        /\ persisted[Addressed(w)][2].sched.timestamp
             = persisted[Addressed(w)][1].sched.timestamp

\* C11 (the claim as stated): the first record persisted for a process carries
\* the digest of the process id, and every later record carries the digest of
\* the previous record's hash chain followed by the id of the item that the
\* record itself holds.
C11_HashChainLinksItemIds ==
    \A p \in Ids : \A i \in 1..Len(persisted[p]) :
        persisted[p][i].sched.hash_chain =
            IF i = 1 THEN HashSeed(p)
            ELSE HashStep(persisted[p][i - 1].sched.hash_chain, persisted[p][i].id)

\* the names of a tag vector, in order
TagNames(tags) == [i \in 1..Len(tags) |-> tags[i].name]

\* the builder has returned Ok(BuildResult) from entry point `kind`
Built(kind) == bld.result = "ok" /\ bld.kind = kind

\* C12: the bundle returned by Builder::build carries exactly the eight tags
\* Bundle-Format=binary, Bundle-Version=2.0.0, Process, Epoch, Nonce,
\* Hash-Chain, Block-Height, Timestamp in that order; Process is the target of
\* the inner item, Block-Height the gateway's height and the four scheduling
\* tags are the values of the snapshot passed in; the signed outer data item
\* has the same tags and an empty target.
C12_MessageBundleTags ==
    Built("build") =>
        /\ TagNames(bld.bundle.tags) =
             <<"Bundle-Format", "Bundle-Version", "Process", "Epoch", "Nonce",
               "Hash-Chain", "Block-Height", "Timestamp">>
        /\ bld.bundle.tags[1].value = "binary"
        /\ bld.bundle.tags[2].value = "2.0.0"
        /\ bld.bundle.tags[3].value = FromBytes(bld.tx).target
        /\ bld.bundle.tags[4].value = bld.sched.epoch
        /\ bld.bundle.tags[5].value = ToString(bld.sched.nonce)
        /\ bld.bundle.tags[6].value = ToString(bld.sched.hash_chain)
        /\ bld.height \in Heights
        /\ bld.bundle.tags[7].value = ToString(bld.height)
        /\ bld.bundle.tags[8].value = ToString(bld.sched.timestamp)
        /\ bld.outer.tags = bld.bundle.tags
        /\ bld.outer.target = ""
        /\ bld.outer.signature = "signed"

\* C12 witness: Builder::build has returned the bundle of a message to P1
\* built under the second snapshot of P1.
C12_Witness ==
    /\ Built("build")
    /\ FromBytes(bld.tx).type = "Message"
    /\ FromBytes(bld.tx).target = "P1"
    /\ bld.sched.nonce = 1
    /\ bld.sched.hash_chain = <<"P1", "P1">>

\* C13: the bundle returned by Builder::build_process carries exactly the four
\* tags Bundle-Format, Bundle-Version, Block-Height, Timestamp and no Process,
\* Epoch, Nonce or Hash-Chain tag, whatever snapshot is passed in.
C13_ProcessBundleTags ==
    Built("build_process") =>
        /\ TagNames(bld.bundle.tags) =
             <<"Bundle-Format", "Bundle-Version", "Block-Height", "Timestamp">>
        /\ \A i \in 1..Len(bld.bundle.tags) :
             bld.bundle.tags[i].name \notin {"Process", "Epoch", "Nonce", "Hash-Chain"}
        /\ bld.bundle.tags[1].value = "binary"
        /\ bld.bundle.tags[2].value = "2.0.0"
        /\ bld.bundle.tags[3].value = ToString(bld.height)
        /\ bld.bundle.tags[4].value = ToString(bld.sched.timestamp)

\* C13 witness: Builder::build_process has returned the bundle of a process
\* item although the snapshot passed in stands at nonce 1.
C13_Witness ==
    /\ Built("build_process")
    /\ FromBytes(bld.tx).type = "Process"
    /\ bld.sched.nonce = 1

C17_BuilderStopsAtFirstFailure ==
    /\ Len(bld.trace) <= Len(BuilderOrder)
    /\ \A i \in 1..Len(bld.trace) : bld.trace[i].step = BuilderOrder[i]
    /\ \A i \in 1..(Len(bld.trace) - 1) : bld.trace[i].ok
    /\ bld.result = "ok" <=>
         /\ Len(bld.trace) = Len(BuilderOrder)
         /\ \A i \in 1..Len(bld.trace) : bld.trace[i].ok
    /\ bld.result = "err" <=> \E i \in 1..Len(bld.trace) : ~bld.trace[i].ok
    /\ bld.result = "err" => (bld.bundle = NoBundle /\ bld.outer = NoOuter)
    /\ (\E i \in 1..Len(bld.trace) : bld.trace[i].step = "sign") =>
         /\ FromBytes(bld.tx).parses
         /\ FromBytes(bld.tx).valid
         /\ bld.height \in Heights \/ bld.result = "err"
         /\ bld.trace[3].ok
    /\ (Len(bld.trace) >= 1 /\ bld.trace[1].ok) => FromBytes(bld.tx).parses
    /\ (Len(bld.trace) >= 2 /\ bld.trace[2].ok) => FromBytes(bld.tx).valid

\* C17 witness: the gateway call has failed after a successful parse and
\* verification, and the builder has returned the error without signing.
C17_Witness ==
    /\ bld.result = "err"
    /\ Len(bld.trace) = 3
    /\ bld.trace[1].ok /\ bld.trace[2].ok /\ ~bld.trace[3].ok

\* the order in which a task moves through write_item
WriteOrder ==
    { <<"idle", "waiting">>, <<"waiting", "locked">>, <<"locked", "build">>,
      <<"build", "upload">>, <<"upload", "save">>, <<"save", "drop">>,
      <<"drop", "respond">>, <<"respond", "idle">>,
      <<"locked", "idle">>, <<"build", "idle">>, <<"upload", "idle">>,
      <<"save", "idle">> }

\* C15: a write goes acquire lock, advance schedule, build, upload, save,
\* release in that order: the lock of the addressed process is held from the
\* schedule advance to the save, and the store is written only by a write
\* whose upload has succeeded and which still holds that lock.
C15_StoreAfterUploadUnderLock ==
    /\ [](\A w \in Writers :
            pc[w] \in {"locked", "build", "upload", "save", "drop"} =>
                holder[Addressed(w)] = w)
    /\ [](\A w \in Writers :
            pc[w] \in {"save", "drop"} => (built[w].signed /\ work[w].upload = 1))
    /\ [][\A w \in Writers : pc'[w] # pc[w] => <<pc[w], pc'[w]>> \in WriteOrder]_vars
    /\ [][\A p \in Ids :
            persisted'[p] # persisted[p] =>
                \E w \in Writers :
                    /\ pc[w] = "save" /\ pc'[w] = "drop"
                    /\ Addressed(w) = p
                    /\ work[w].upload = 1
                    /\ holder[p] = w /\ holder'[p] = w
                    /\ schedule_info[p] = built[w].sched]_vars

\* C15 witness: a write has uploaded and saved its record and still holds the
\* lock of its process.
C15_Witness ==
    \E w \in Writers :
        /\ pc[w] = "drop"
        /\ holder[Addressed(w)] = w
        /\ work[w].upload = 1 /\ work[w].save = 1
        /\ Last(persisted[Addressed(w)]).id = item[w].id
        /\ Len(persisted[Addressed(w)]) = 2

\* C16: the timestamp of a success response is a clock value read after the
\* lock was released: at that point the task holds no lock, and every value
\* the clock can read is a possible response, whatever timestamp the record
\* was persisted with.
C16_ResponseTimeReadAfterRelease ==
    \A w \in Writers :
        pc[w] = "respond" =>
            /\ \A p \in Ids : holder[p] # w
            /\ \E i \in 1..Len(persisted[Addressed(w)]) :
                 persisted[Addressed(w)][i].id = item[w].id
            /\ \A now \in Clock :
                 ENABLED (Respond(w) /\ response'.ok /\ response'.timestamp = now)

\* C16 witness: the creation of P1 was answered with a timestamp other than
\* the persisted one, and a later write to P1 is about to read the clock for
\* its response while another write to P1 is inside its locked section.
C16_Witness ==
    \E w, v \in Writers :
        /\ pc[w] = "respond" /\ InLocked(v)
        /\ Addressed(w) = "P1" /\ Addressed(v) = "P1"
        /\ response.ok /\ response.id = "P1"
        /\ persisted["P1"][1].id = "P1"
        /\ persisted["P1"][1].sched.timestamp # response.timestamp

\* the locks task w holds, and the locks it is queued for
Held(w) == {p \in Ids : holder[p] = w}
Queued(w) == {p \in Ids : \E i \in 1..Len(waitq[p]) : waitq[p][i] = w}

\* C19: a write holds at most one lock and waits for at most one, and a write
\* that waits holds none, so writes never wait on each other in a cycle:
\* whenever a write is in progress, some write can take its next step.
C19_AtMostOneLockNoCycle ==
    /\ \A w \in Writers :
         /\ Cardinality(Held(w)) <= 1
         /\ Cardinality(Queued(w)) <= 1
         /\ Queued(w) # {} => (pc[w] = "waiting" /\ Held(w) = {})
         /\ pc[w] = "waiting" => Queued(w) = {ScheduleKey(item[w])}
    /\ (\E w \in Writers : pc[w] # "idle") =>
         \E w \in Writers :
            \/ pc[w] \notin {"idle", "waiting"}
            \/ pc[w] = "waiting" /\ CanLock(w)

\* C19 witness: a message to P1 holds the lock of P1 at upload while the
\* creation of P1 waits for the same lock.
C19_Witness ==
    \E w, v \in Writers :
        /\ pc[w] = "upload" /\ item[w].type = "Message"
        /\ pc[v] = "waiting" /\ item[v].type = "Process"
        /\ item[v].id = item[w].target
        /\ Held(w) = {item[v].id}

\* C20: a success response is returned only by an invocation that uploaded
\* the binary and then saved the item, as a process for Type=Process and as a
\* message for Type=Message; no invocation uploads or saves more than once.
C20_SuccessMeansUploadedAndSaved ==
    /\ \A w \in Writers : work[w].upload <= 1 /\ work[w].save <= 1
    /\ response.work.upload <= 1 /\ response.work.save <= 1
    /\ \A w \in Writers :
         pc[w] \in {"drop", "respond"} =>
            /\ work[w].upload = 1 /\ work[w].save = 1
            /\ \E i \in 1..Len(persisted[Addressed(w)]) :
                 /\ persisted[Addressed(w)][i].id = item[w].id
                 /\ persisted[Addressed(w)][i].type = item[w].type
    /\ response.ok =>
         /\ response.work.upload = 1 /\ response.work.save = 1
         /\ \E p \in Ids : \E i \in 1..Len(persisted[p]) :
              persisted[p][i].id = response.id

\* C20 witness: write_item has returned success for message M1, uploaded once
\* and saved once in that invocation as the second record of the created P1.
C20_Witness ==
    /\ response.ok /\ response.id = "M1"
    /\ response.work.upload = 1 /\ response.work.save = 1
    /\ Len(persisted["P1"]) = 2
    /\ persisted["P1"][1].type = "Process"
    /\ persisted["P1"][2].id = "M1" /\ persisted["P1"][2].type = "Message"

\* C18: with every runnable task polled and every collaborator call
\* returning, each write_item invocation returns; the lock of a process goes
\* to the writers in the order they asked, so a queued write is not overtaken.
C18_EveryWriteReturns ==
    /\ \A w \in Writers : (pc[w] # "idle") ~> (pc[w] = "idle")
    /\ \A w \in Writers : (pc[w] = "waiting") ~> InLocked(w)
    /\ [][\A p \in Ids :
            /\ (holder[p] = 0 /\ holder'[p] # 0) =>
                  /\ waitq[p] # <<>>
                  /\ holder'[p] = Head(waitq[p])
                  /\ waitq'[p] = Tail(waitq[p])
            /\ (holder[p] # 0 \/ holder'[p] = 0) =>
                  \/ waitq'[p] = waitq[p]
                  \/ \E w \in Writers : waitq'[p] = Append(waitq[p], w)]_vars

\* C18 witness: a write to P1 waits in the queue while another write to P1,
\* which asked first, holds the lock.
C18_Witness ==
    \E w, v \in Writers :
        /\ pc[w] = "waiting" /\ ~CanLock(w)
        /\ holder[ScheduleKey(item[w])] = v
        /\ waitq[ScheduleKey(item[w])] = <<w>>
        /\ Len(persisted[ScheduleKey(item[w])]) = 1

====
